---- MODULE Spec2Model ----
(***************************************************************************)
(* Model of library.py: the Book record, the LibraryManager store with its *)
(* JSON load/save, and the interactive menu loop of main().                *)
(*                                                                         *)
(* Python str values that are searched (title, author, query, the text     *)
(* typed for a number) are sequences of one-character strings; status      *)
(* values and field names, which are only compared, are TLA+ strings.      *)
(* The two status literals of the source are Cyrillic ("v nalichii",       *)
(* "vydana"); the model names them "available" and "checked out".          *)
(***************************************************************************)
EXTENDS Integers, Sequences, FiniteSets, TLC

\* Bounds of the model.
MaxBooks == 2
MaxId == 3

-----------------------------------------------------------------------------
\* Python built-ins used by the program.

Digits == <<"0", "1", "2", "3", "4", "5", "6", "7", "8", "9">>

IsDigit(c) == \E d \in 1..10 : Digits[d] = c

DigitVal(c) == (CHOOSE d \in 1..10 : Digits[d] = c) - 1

\* str.lower() on one character of the model's alphabet.
LowerChar(c) ==
    CASE c = "A" -> "a"
      [] c = "B" -> "b"
      [] c = "D" -> "d"
      [] OTHER -> c

RECURSIVE lower(_)
lower(s) == IF s = <<>> THEN <<>> ELSE <<LowerChar(Head(s))>> \o lower(Tail(s))

RECURSIVE StrNat(_)
StrNat(n) ==
    IF n < 10 THEN <<Digits[n + 1]>>
    ELSE Append(StrNat(n \div 10), Digits[(n % 10) + 1])

\* str(n) for an int.
str(n) == IF n < 0 THEN <<"-">> \o StrNat(-n) ELSE StrNat(n)

RECURSIVE ParseNat(_)
ParseNat(s) ==
    IF s = <<>> THEN 0
    ELSE 10 * ParseNat(SubSeq(s, 1, Len(s) - 1)) + DigitVal(s[Len(s)])

AllDigits(s) == s # <<>> /\ \A i \in 1..Len(s) : IsDigit(s[i])

\* int(text): [ok, val]; ok = FALSE stands for ValueError.  Surrounding
\* whitespace and underscores, which int() also accepts, are not in the
\* model's inputs.
int(s) ==
    IF AllDigits(s) THEN [ok |-> TRUE, val |-> ParseNat(s)]
    ELSE IF Len(s) >= 2 /\ s[1] \in {"-", "+"} /\ AllDigits(Tail(s))
         THEN [ok |-> TRUE,
               val |-> IF s[1] = "-" THEN 0 - ParseNat(Tail(s)) ELSE ParseNat(Tail(s))]
         ELSE [ok |-> FALSE, val |-> 0]

\* needle in hay, for two str values: scan hay from the left.
RECURSIVE str_in(_, _)
str_in(needle, hay) ==
    IF Len(needle) > Len(hay) THEN FALSE
    ELSE IF SubSeq(hay, 1, Len(needle)) = needle THEN TRUE
    ELSE str_in(needle, Tail(hay))

\* max(S, default=0)
max_default0(S) == IF S = {} THEN 0 ELSE CHOOSE m \in S : \A x \in S : x <= m

-----------------------------------------------------------------------------
\* class Book

STATUS_AVAILABLE == "available"
STATUS_ISSUED == "checked out"

\* Book.__init__
Book(book_id, title, author, year, status) ==
    [id |-> book_id, title |-> title, author |-> author, year |-> year,
     status |-> status]

\* Faulty variant of to_dict: title and author exchanged.
to_dict_swapped(book) ==
    [id |-> book.id, title |-> book.author, author |-> book.title,
     year |-> book.year, status |-> book.status]

\* Book.to_dict: the JSON object of a book.
to_dict(book) ==
    [id |-> book.id, title |-> book.title, author |-> book.author,
     year |-> book.year, status |-> book.status]

\* Book.from_dict
from_dict(data) ==
    Book(data["id"], data["title"], data["author"], data["year"], data["status"])

\* getattr(book, key, "") for the three keys search_books lets through.
getattr_str(book, key) ==
    CASE key = "title" -> book.title
      [] key = "author" -> book.author
      [] key = "year" -> str(book.year)
      [] OTHER -> <<>>

-----------------------------------------------------------------------------
\* class LibraryManager.  The methods are operators on the list self.books.

RECURSIVE MapFromDict(_)
MapFromDict(ds) ==
    IF ds = <<>> THEN <<>> ELSE <<from_dict(Head(ds))>> \o MapFromDict(Tail(ds))

RECURSIVE MapToDict(_)
MapToDict(bs) ==
    IF bs = <<>> THEN <<>> ELSE <<to_dict(Head(bs))>> \o MapToDict(Tail(bs))

\* The file books.json: missing, not JSON, or a JSON array of objects.
FileMissing == [kind |-> "missing", data |-> <<>>]
FileCorrupt == [kind |-> "corrupt", data |-> <<>>]

_load_from_file(f) ==
    IF f.kind = "json" THEN MapFromDict(f.data) ELSE <<>>

\* The file content save_to_file writes for the list bs.
save_to_file(bs) == [kind |-> "json", data |-> MapToDict(bs)]

Ids(bs) == {bs[i].id : i \in 1..Len(bs)}

\* next((book for book in self.books if book.id == book_id), None):
\* the index of the first match, 0 for None.
next_by_id(bs, book_id) ==
    IF \E i \in 1..Len(bs) : bs[i].id = book_id
    THEN CHOOSE i \in 1..Len(bs) :
            /\ bs[i].id = book_id
            /\ \A j \in 1..(i - 1) : bs[j].id # book_id
    ELSE 0

\* list.remove of the object found at index i.
list_remove(bs, i) == SubSeq(bs, 1, i - 1) \o SubSeq(bs, i + 1, Len(bs))

\* Faulty variant of add_book: the id is the list length plus one.
add_book_by_len(bs, title, author, year) ==
    LET new_book == Book(Len(bs) + 1, title, author, year, STATUS_AVAILABLE)
    IN  [books |-> Append(bs, new_book), ret |-> new_book]

\* Faulty variant of add_book: the new book is put first.
add_book_front(bs, title, author, year) ==
    LET new_book == Book(max_default0(Ids(bs)) + 1, title, author, year,
                         STATUS_AVAILABLE)
    IN  [books |-> <<new_book>> \o bs, ret |-> new_book]

add_book(bs, title, author, year) ==
    LET book_id == max_default0(Ids(bs)) + 1
        new_book == Book(book_id, title, author, year, STATUS_AVAILABLE)
    IN  [books |-> Append(bs, new_book), ret |-> new_book]

remove_book(bs, book_id) ==
    LET book == next_by_id(bs, book_id)
    IN  IF book # 0
        THEN [books |-> list_remove(bs, book), ret |-> TRUE]
        ELSE [books |-> bs, ret |-> FALSE]

RECURSIVE Filter(_, _, _)
Filter(bs, q, key) ==
    IF bs = <<>> THEN <<>>
    ELSE (IF str_in(q, lower(getattr_str(Head(bs), key)))
          THEN <<Head(bs)>> ELSE <<>>) \o Filter(Tail(bs), q, key)

\* Faulty variant of search_books: the query is not lowered.
search_books_exact_case(bs, query, key) ==
    IF key \notin {"title", "author", "year"} THEN <<>>
    ELSE Filter(bs, query, key)

search_books(bs, query, key) ==
    IF key \notin {"title", "author", "year"} THEN <<>>
    ELSE Filter(bs, lower(query), key)

\* Faulty variant of update_status: every record with the id is changed.
update_status_all(bs, book_id, new_status) ==
    IF new_status \notin {STATUS_AVAILABLE, STATUS_ISSUED}
    THEN [books |-> bs, ret |-> FALSE]
    ELSE IF next_by_id(bs, book_id) # 0
         THEN [books |-> [i \in 1..Len(bs) |->
                            IF bs[i].id = book_id
                            THEN [bs[i] EXCEPT !.status = new_status]
                            ELSE bs[i]],
               ret |-> TRUE]
         ELSE [books |-> bs, ret |-> FALSE]

update_status(bs, book_id, new_status) ==
    IF new_status \notin {STATUS_AVAILABLE, STATUS_ISSUED}
    THEN [books |-> bs, ret |-> FALSE]
    ELSE LET book == next_by_id(bs, book_id)
         IN  IF book # 0
             THEN [books |-> [bs EXCEPT ![book].status = new_status],
                   ret |-> TRUE]
             ELSE [books |-> bs, ret |-> FALSE]

\* display_books: what is printed, as a message tag and the books listed.
display_books(bs) ==
    IF bs = <<>> THEN [msg |-> "library_empty", shown |-> <<>>]
    ELSE [msg |-> "book_list", shown |-> bs]

-----------------------------------------------------------------------------
\* main(): the state of one run of the program.

VARIABLES
    books,    \* library.books
    file,     \* content of books.json
    pc,       \* "menu" inside the while loop, "done" after break
    choice,   \* the menu line handled last ("0" before the first)
    arg,      \* what the handler read after the choice
    ret,      \* what the LibraryManager method returned
    out,      \* what the handler printed
    seen      \* ids of all books that have been in library.books

vars == <<books, file, pc, choice, arg, ret, out, seen>>

NoArg == [numOk |-> FALSE, num |-> 0, status |-> "", query |-> <<>>, key |-> ""]
NoRet == [ok |-> FALSE, book |-> <<>>, results |-> <<>>]
NoOut == [msg |-> "", shown |-> <<>>]

\* What the user types.
BookInputs ==
    { [title |-> <<"D", "b">>, author |-> <<"B", "a">>, year |-> <<"1", "7">>],
      [title |-> <<"b">>,      author |-> <<"a">>,      year |-> <<"7">>],
      [title |-> <<"b">>,      author |-> <<"a">>,      year |-> <<"x">>] }

IdInputs == {str(i) : i \in 1..MaxId} \cup {<<"x">>}

StatusInputs == {STATUS_AVAILABLE, STATUS_ISSUED, "lost"}

QueryInputs == {<<"d", "B">>, <<"1">>}

KeyInputs == {"title", "author", "year", "status"}

\* What books.json may hold when the program starts: nothing, text that is
\* not JSON, or an array of complete book objects written by anyone.
FileDict(i, s) ==
    [id |-> i, title |-> <<"D", "b">>, author |-> <<"B", "a">>, year |-> 17,
     status |-> s]

FileDicts ==
    {FileDict(1, "lost"), FileDict(2, STATUS_AVAILABLE)}

RECURSIVE SeqsUpTo(_, _)
SeqsUpTo(S, n) ==
    IF n = 0 THEN {<<>>}
    ELSE LET shorter == SeqsUpTo(S, n - 1)
         IN  shorter \cup {Append(s, x) : s \in shorter, x \in S}

InitFiles ==
    {FileMissing, FileCorrupt}
        \cup {[kind |-> "json", data |-> d] : d \in SeqsUpTo(FileDicts, MaxBooks)}

\* library = LibraryManager("books.json")
InitWith(f) ==
    /\ file = f
    /\ books = _load_from_file(f)
    /\ pc = "menu"
    /\ choice = "0"
    /\ arg = NoArg
    /\ ret = NoRet
    /\ out = NoOut
    /\ seen = Ids(_load_from_file(f))

Init == \E f \in InitFiles : InitWith(f)

InitEmpty == \E f \in {FileMissing, FileCorrupt} : InitWith(f)

\* choice == "1"
MenuAdd ==
    /\ pc = "menu"
    /\ \E inp \in BookInputs :
        LET year == int(inp.year)
        IN  /\ arg' = [NoArg EXCEPT !.numOk = year.ok, !.num = year.val]
            /\ IF year.ok
               THEN /\ Len(books) < MaxBooks
                    /\ max_default0(Ids(books)) < MaxId
                    /\ LET r == add_book(books, inp.title, inp.author, year.val)
                       IN  /\ books' = r.books
                           /\ ret' = [NoRet EXCEPT !.ok = TRUE, !.book = <<r.ret>>]
                           /\ out' = [msg |-> "added", shown |-> <<r.ret>>]
               ELSE /\ books' = books
                    /\ ret' = NoRet
                    /\ out' = [msg |-> "year_error", shown |-> <<>>]
    /\ choice' = "1"
    /\ seen' = seen \cup Ids(books')
    /\ UNCHANGED <<file, pc>>

\* choice == "2"
MenuRemove ==
    /\ pc = "menu"
    /\ \E text \in IdInputs :
        LET book_id == int(text)
        IN  /\ arg' = [NoArg EXCEPT !.numOk = book_id.ok, !.num = book_id.val]
            /\ IF book_id.ok
               THEN LET r == remove_book(books, book_id.val)
                    IN  /\ books' = r.books
                        /\ ret' = [NoRet EXCEPT !.ok = r.ret]
                        /\ out' = [msg |-> IF r.ret THEN "removed" ELSE "id_not_found",
                                   shown |-> <<>>]
               ELSE /\ books' = books
                    /\ ret' = NoRet
                    /\ out' = [msg |-> "id_error", shown |-> <<>>]
    /\ choice' = "2"
    /\ UNCHANGED <<file, pc, seen>>

\* choice == "3"
MenuSearch ==
    /\ pc = "menu"
    /\ \E key \in KeyInputs, query \in QueryInputs :
        LET results == search_books(books, query, key)
        IN  /\ arg' = [NoArg EXCEPT !.query = query, !.key = key]
            /\ ret' = [NoRet EXCEPT !.ok = (results # <<>>), !.results = results]
            /\ out' = IF results # <<>> THEN display_books(books)
                      ELSE [msg |-> "none_found", shown |-> <<>>]
    /\ choice' = "3"
    /\ UNCHANGED <<books, file, pc, seen>>

\* choice == "4"
MenuList ==
    /\ pc = "menu"
    /\ out' = display_books(books)
    /\ choice' = "4"
    /\ arg' = NoArg
    /\ ret' = NoRet
    /\ UNCHANGED <<books, file, pc, seen>>

\* choice == "5"
MenuUpdate ==
    /\ pc = "menu"
    /\ \E text \in IdInputs, new_status \in StatusInputs :
        LET book_id == int(text)
        IN  IF book_id.ok
            THEN LET r == update_status(books, book_id.val, new_status)
                 IN  /\ arg' = [NoArg EXCEPT !.numOk = TRUE, !.num = book_id.val,
                                             !.status = new_status]
                     /\ books' = r.books
                     /\ ret' = [NoRet EXCEPT !.ok = r.ret]
                     /\ out' = [msg |-> IF r.ret THEN "status_updated"
                                        ELSE "id_not_found",
                                shown |-> <<>>]
            ELSE /\ arg' = NoArg
                 /\ books' = books
                 /\ ret' = NoRet
                 /\ out' = [msg |-> "id_error", shown |-> <<>>]
    /\ choice' = "5"
    /\ UNCHANGED <<file, pc, seen>>

\* Faulty variant of MenuExit: the loop ends without save_to_file.
MenuExit_no_save ==
    /\ pc = "menu"
    /\ pc' = "done"
    /\ out' = [msg |-> "saved_goodbye", shown |-> <<>>]
    /\ choice' = "6"
    /\ arg' = NoArg
    /\ ret' = NoRet
    /\ UNCHANGED <<books, file, seen>>

\* choice == "6"
MenuExit ==
    /\ pc = "menu"
    /\ file' = save_to_file(books)
    /\ pc' = "done"
    /\ out' = [msg |-> "saved_goodbye", shown |-> <<>>]
    /\ choice' = "6"
    /\ arg' = NoArg
    /\ ret' = NoRet
    /\ UNCHANGED <<books, seen>>

\* any other line
MenuInvalid ==
    /\ pc = "menu"
    /\ out' = [msg |-> "invalid_choice", shown |-> <<>>]
    /\ choice' = "other"
    /\ arg' = NoArg
    /\ ret' = NoRet
    /\ UNCHANGED <<books, file, pc, seen>>

Next ==
    \/ MenuAdd
    \/ MenuRemove
    \/ MenuSearch
    \/ MenuList
    \/ MenuUpdate
    \/ MenuExit
    \/ MenuInvalid

Spec == Init /\ [][Next]_vars

SpecEmpty == InitEmpty /\ [][Next]_vars

-----------------------------------------------------------------------------
\* Properties.

IdsDistinct(bs) ==
    \A i, j \in 1..Len(bs) : i # j => bs[i].id # bs[j].id

AllowedStatusValues == {STATUS_AVAILABLE, STATUS_ISSUED}

HasId(bs, n) == \E i \in 1..Len(bs) : bs[i].id = n

\* The least index of a book with id n.
FirstWithId(bs, n) ==
    CHOOSE i \in 1..Len(bs) : bs[i].id = n /\ \A j \in 1..Len(bs) : bs[j].id = n => i <= j

\* bs with the element at index k left out.
Without(bs, k) ==
    [i \in 1..(Len(bs) - 1) |-> IF i < k THEN bs[i] ELSE bs[i + 1]]

\* q occurs in s when letter case is ignored.
OccursIgnoringCase(q, s) ==
    \E off \in 0..(Len(s) - Len(q)) :
        \A j \in 1..Len(q) : LowerChar(q[j]) = LowerChar(s[off + j])

\* The books a search for query in field key is specified to return.
ExpectedResults(bs, query, key) ==
    LET Match(b) ==
            \/ key = "title" /\ OccursIgnoringCase(query, b.title)
            \/ key = "author" /\ OccursIgnoringCase(query, b.author)
            \/ key = "year" /\ OccursIgnoringCase(query, str(b.year))
    IN  SelectSeq(bs, Match)

\* C1: from an empty store (books.json missing or not JSON), the ids in the
\* collection are always pairwise distinct, and every add returns a record
\* that is in the collection, whose id is one more than the greatest id
\* present just before the add (1 if the collection was empty) and whose
\* status is the default "available".
C1_AddAssignsMaxPlusOne ==
    [][ /\ IdsDistinct(books')
        /\ (choice' = "1" /\ ret'.ok) =>
              LET b == ret'.book[1]
              IN  /\ \A i \in 1..Len(books) : books[i].id < b.id
                  /\ books = <<>> => b.id = 1
                  /\ books # <<>> => HasId(books, b.id - 1)
                  /\ b.status = STATUS_AVAILABLE
                  /\ \E i \in 1..Len(books') : books'[i] = b ]_vars

\* C1 witness: an add after a removal, where the new id (3) is neither the
\* length of the collection nor its length plus one.
C1_Witness ==
    /\ choice = "1" /\ ret.ok
    /\ Len(books) = 2
    /\ ret.book[1].id = 3
    /\ books[1].id = 2

\* C2: ids are not reused after deletion: the id an add assigns is different
\* from the id of every record that was in the store at any earlier time.
C2_IdNeverReused ==
    [][(choice' = "1" /\ ret'.ok) => ret'.book[1].id \notin seen]_vars

\* C3: in every reachable state, also right after loading a file that parses
\* into records, the status of every record is one of the two allowed values.
C3_StatusAlwaysAllowed ==
    \A i \in 1..Len(books) : books[i].status \in AllowedStatusValues

\* C4: update_status(id, s) with s allowed and id present returns success and
\* changes only the status of the first record with that id (to s); with id
\* absent or s not allowed it returns failure and changes nothing.
C4_UpdateStatusFrame ==
    [][(choice' = "5" /\ arg'.numOk) =>
          IF arg'.status \in AllowedStatusValues /\ HasId(books, arg'.num)
          THEN LET k == FirstWithId(books, arg'.num)
               IN  /\ ret'.ok
                   /\ Len(books') = Len(books)
                   /\ books'[k].status = arg'.status
                   /\ books'[k].id = books[k].id
                   /\ books'[k].title = books[k].title
                   /\ books'[k].author = books[k].author
                   /\ books'[k].year = books[k].year
                   /\ \A i \in 1..Len(books) : i # k => books'[i] = books[i]
          ELSE ~ret'.ok /\ books' = books ]_vars

\* C4 witness: two records share id 1; the update changed the first of them
\* and left the second with its old status.
C4_Witness ==
    /\ choice = "5" /\ ret.ok /\ arg.num = 1
    /\ Len(books) = 2
    /\ books[1].id = 1 /\ books[2].id = 1
    /\ books[1].status = STATUS_ISSUED
    /\ books[2].status = "lost"

\* C5: remove(id) with id present returns success, the collection shrinks by
\* exactly one, no record with that id remains, and the other records keep
\* their fields and relative order; with id absent it returns failure and the
\* collection is unchanged.
C5_RemoveLeavesNoSuchId ==
    [][(choice' = "2" /\ arg'.numOk) =>
          IF HasId(books, arg'.num)
          THEN /\ ret'.ok
               /\ Len(books') = Len(books) - 1
               /\ ~HasId(books', arg'.num)
               /\ \E k \in 1..Len(books) : books' = Without(books, k)
          ELSE ~ret'.ok /\ books' = books ]_vars

C7_FileWrittenOnlyOnExit ==
    [][ /\ choice' # "6" => (file' = file /\ pc' = pc)
        /\ choice' = "6" =>
              /\ pc' = "done"
              /\ books' = books
              /\ file'.kind = "json"
              /\ Len(file'.data) = Len(books)
              /\ \A i \in 1..Len(books) :
                    /\ file'.data[i]["id"] = books[i].id
                    /\ file'.data[i]["title"] = books[i].title
                    /\ file'.data[i]["author"] = books[i].author
                    /\ file'.data[i]["year"] = books[i].year
                    /\ file'.data[i]["status"] = books[i].status ]_vars

\* C7 witness: the exit wrote a collection that was changed in memory (no
\* file the program starts from holds a "checked out" record).
C7_Witness ==
    /\ pc = "done" /\ choice = "6"
    /\ file.kind = "json"
    /\ Len(file.data) = 1
    /\ file.data[1]["id"] = 2
    /\ file.data[1]["status"] = STATUS_ISSUED

\* C8: menu choice 3 prints exactly the records search returned, and prints
\* the "not found" message exactly when there are no matches.
C8_SearchPrintsExactlyMatches ==
    choice = "3" =>
        /\ out.shown = ret.results
        /\ (out.msg = "none_found") <=> (ret.results = <<>>)

\* C9: search(query, field) leaves the collection unchanged; for field in
\* {title, author, year} it returns, in collection order, exactly the records
\* whose stringified field contains query when case is ignored; for any other
\* field name it returns nothing.
C9_SearchCorrect ==
    [][choice' = "3" =>
          /\ books' = books
          /\ IF arg'.key \in {"title", "author", "year"}
             THEN ret'.results = ExpectedResults(books, arg'.query, arg'.key)
             ELSE ret'.results = <<>> ]_vars

\* C9 witness: a title search whose query differs in case from the title it
\* finds, returning one book of two.
C9_Witness ==
    /\ choice = "3"
    /\ arg.key = "title" /\ arg.query = <<"d", "B">>
    /\ Len(books) = 2
    /\ Len(ret.results) = 1
    /\ ret.results[1].title = <<"D", "b">>

\* C10: from an empty store, the ids read in collection order are strictly
\* increasing positive integers.
C10_IdsStrictlyIncreasing ==
    /\ \A i \in 1..Len(books) : books[i].id > 0
    /\ \A i, j \in 1..Len(books) : i < j => books[i].id < books[j].id

\* C10 witness: two books left after adds, a removal and a status update,
\* with ids 2 and 3.
C10_Witness ==
    /\ Len(books) = 2
    /\ books[1].id = 2 /\ books[2].id = 3
    /\ books[1].status = STATUS_ISSUED
    /\ choice = "5"

====
